---- MODULE Spec2Model ----
(***************************************************************************)
(* State-machine model of the EComFront client:                            *)
(*   - ImageService (utils/imageService.js): upload with retry, batch      *)
(*     bookkeeping, public-URL cache, file validation;                     *)
(*   - retryUpload / batchUploadWithRetry (utils/supabase.js);             *)
(*   - apiClient (src/utils/apiClient.js and ExtraFiles/.../apiClient.js); *)
(*   - CreatePost (components/posts/CreatePost.js);                        *)
(*   - ChatPage (components/ChatPage.js).                                  *)
(* JavaScript null and undefined are the strings NULL and UNDEFINED in     *)
(* string-valued fields and 0 in the numeric fields that are positive when *)
(* present.                                                                *)
(***************************************************************************)
EXTENDS Integers, Sequences, FiniteSets, TLC

NULL == "null"
UNDEFINED == "undefined"

(***************************************************************************)
(* Bounds of the model.                                                    *)
(***************************************************************************)
MaxRetriesOpt == 2      \* largest options.maxRetries a caller passes
MaxFiles == 2           \* longest file list handed to a batch operation

(***************************************************************************)
(* IMAGE_CONFIG (imageService.js 17-24).                                   *)
(***************************************************************************)
BytesPerMB == 1048576
ConfigMaxSizeMB == 2
ConfigMaxRetries == 3
ConfigRetryDelay == 1000
ConfigAllowedTypes == {"image/jpeg", "image/png", "image/webp", "image/gif"}

(***************************************************************************)
(* Files.  A file is a record of the three properties the code reads.      *)
(***************************************************************************)
FileNames == {"a.png", "b.png"}
FileSizes == {0, 2097152, 2097153, 5242880, 5242881}
FileTypes == {"image/jpeg", "image/png", "image/webp", "image/gif",
              "application/pdf", ""}
File(n, s, t) == [name |-> n, size |-> s, type |-> t]

\* The files the upload operations are exercised with: one under every
\* compression limit, one over them.
UploadFiles == {File("a.png", 2097152, "image/png"),
                File("b.png", 5242881, "image/png")}

EntityIds == {"post1"}
\* The timestamp-random suffixes generateFilename can draw.
Stamps == {1, 2}

\* originalName.split('.').pop()
Extension(name) ==
    CASE name = "a.png" -> "png"
      [] name = "b.png" -> "png"
      [] OTHER -> name

\* `${entityId}/${timestamp}-${randomId}.${extension}`; stamp stands for the
\* timestamp-random pair.
generateFilename(originalName, entityId, stamp) ==
    <<entityId, stamp, Extension(originalName)>>

Paths == {generateFilename(n, e, s) : n \in FileNames, e \in EntityIds, s \in Stamps}

\* Errors of the storage SDK, returned in {error} or thrown; uploadImage
\* rethrows a returned error, so both reach the same catch.
UploadErrors == {"StorageError", "NetworkError"}
UploadOutcomes == {"ok"} \cup UploadErrors

\* What the storage SDK's getPublicUrl would answer now: a URL under one of
\* two origins, a data object without publicUrl, or an exception.
SdkAnswers == {"originA", "originB", "EMPTY", "THROW"}

\* A URL is an origin and the path it serves; AbsentUrl is a missing Map
\* entry (Map.get gives undefined), EmptyUrl the empty string.  Both are falsy.
NoPath == <<"", 0, "">>
Url(origin, storagePath) == [origin |-> origin, path |-> storagePath]
AbsentUrl == Url("absent", NoPath)
EmptyUrl == Url("empty", NoPath)
Truthy(url) == url # AbsentUrl /\ url # EmptyUrl

VARIABLES
    cache,      \* ImageService.cache: Paths -> URL or AbsentUrl
    sdk,        \* the storage SDK's current answer to getPublicUrl
    up,         \* the uploadImage call in progress
    um,         \* the uploadMultipleImages call in progress
    ev,         \* the last ImageService step: the operation and what it returned
    vf,         \* the last validateFile call: its arguments and its result
    bu,         \* the batchUploadWithRetry call in progress
    ru,         \* the retryUpload calls of its current batch, one per file
    session,    \* the auth SDK's current session
    localStore, \* localStorage, as far as the extra apiClient reads it
    call,       \* the last apiClient call: what was sent and what it resolved to
    net,        \* the kinds of network request apiClient and the pages issued so far
    cp,         \* the CreatePost component: its state and its handleSubmit call
    chat,       \* the ChatPage component's state
    auth,       \* the AuthProvider: its state and its last operation
    home        \* the HomePage component: its state and its pending requests

imgVars == <<cache, sdk, up, um, ev>>

(***************************************************************************)
(* ImageService.getPublicUrl and constructCdnUrl.                          *)
(***************************************************************************)
\* https://<projectRef>.supabase.co/storage/v1/object/public/<bucket>/<path>
constructCdnUrl(storagePath) == Url("cdn", storagePath)

\* data.publicUrl of the SDK's answer (EmptyUrl when data has none).
SdkPublicUrl(answer, storagePath) ==
    IF answer \in {"originA", "originB"} THEN Url(answer, storagePath) ELSE EmptyUrl

GetResult(url, consulted, c) == [url |-> url, consulted |-> consulted, cache |-> c]

\* Changed the way a bug would: the SDK is asked even on a cache hit.
GetPublicUrlIgnoringCache(c, answer, storagePath) ==
    IF answer # "THROW" /\ Truthy(SdkPublicUrl(answer, storagePath))
    THEN GetResult(SdkPublicUrl(answer, storagePath), TRUE,
                   [c EXCEPT ![storagePath] = SdkPublicUrl(answer, storagePath)])
    ELSE GetResult(constructCdnUrl(storagePath), TRUE,
                   [c EXCEPT ![storagePath] = constructCdnUrl(storagePath)])

\* getPublicUrl(storagePath) on cache c when the SDK would answer `answer`:
\* the URL returned, whether the SDK was consulted, and the cache afterwards.
GetPublicUrlResult(c, answer, storagePath) ==
    IF Truthy(c[storagePath])
    THEN GetResult(c[storagePath], FALSE, c)
    ELSE IF answer # "THROW" /\ Truthy(SdkPublicUrl(answer, storagePath))
    THEN GetResult(SdkPublicUrl(answer, storagePath), TRUE,
                   [c EXCEPT ![storagePath] = SdkPublicUrl(answer, storagePath)])
    ELSE GetResult(constructCdnUrl(storagePath), TRUE,
                   [c EXCEPT ![storagePath] = constructCdnUrl(storagePath)])

Event(op, path, url, consulted, success) ==
    [op |-> op, path |-> path, url |-> url, consulted |-> consulted,
     success |-> success]
NoEvent == Event("none", NoPath, AbsentUrl, FALSE, FALSE)
Step(op) == Event(op, NoPath, AbsentUrl, FALSE, FALSE)

(***************************************************************************)
(* ImageService.compressImage.                                             *)
(***************************************************************************)
\* Options of uploadImage; a field that is 0 was not passed.
UploadOptions ==
    {[maxRetries |-> n, retryDelay |-> o[1], maxSizeMB |-> o[2]] :
        n \in 0..MaxRetriesOpt, o \in {<<0, 0>>, <<250, 5>>}}

\* The options CreatePost.uploadImages passes (CreatePost.js 180-184), and none.
MultiOptions ==
    {[maxRetries |-> 3, retryDelay |-> 1000, maxSizeMB |-> 5],
     [maxRetries |-> 0, retryDelay |-> 0, maxSizeMB |-> 0]}

\* {...IMAGE_CONFIG, ...options}.maxSizeMB
CompressionLimit(options) ==
    (IF options.maxSizeMB = 0 THEN ConfigMaxSizeMB ELSE options.maxSizeMB) * BytesPerMB

\* The file compressImage resolves to.  `lib` is what imageCompression does
\* when it is called: "compressed" (a file within the limit) or "fails".
compressImage(file, options, lib) ==
    IF file.size <= CompressionLimit(options) THEN file
    ELSE IF lib = "compressed"
    THEN [file EXCEPT !.size = CompressionLimit(options)]
    ELSE file

(***************************************************************************)
(* ImageService.uploadImage: one storage upload per attempt, a wait        *)
(* between attempts.                                                       *)
(***************************************************************************)
NoData == [storage_path |-> NoPath, original_filename |-> NULL, file_size |-> 0,
           publicUrl |-> AbsentUrl]

NoResult == [success |-> FALSE, data |-> NoData, attempt |-> 0, attempts |-> 0,
             error |-> NULL]

UploadSuccess(storagePath, file, compressed, publicUrl, attempt) ==
    [success |-> TRUE,
     data |-> [storage_path |-> storagePath, original_filename |-> file.name,
               file_size |-> compressed.size, publicUrl |-> publicUrl],
     attempt |-> attempt, attempts |-> 0, error |-> NULL]

\* lastError || 'Upload failed after multiple attempts'
UploadFailure(lastError, maxRetries) ==
    [success |-> FALSE, data |-> NoData, attempt |-> 0, attempts |-> maxRetries,
     error |-> IF lastError = NULL THEN "Upload failed after multiple attempts"
               ELSE lastError]

\* options.maxRetries || IMAGE_CONFIG.maxRetries
EffectiveMaxRetries(options) ==
    IF options.maxRetries = 0 THEN ConfigMaxRetries ELSE options.maxRetries

\* options.retryDelay || IMAGE_CONFIG.retryDelay
EffectiveRetryDelay(options) ==
    IF options.retryDelay = 0 THEN ConfigRetryDelay ELSE options.retryDelay

\* Changed the way a bug would: one attempt too many.
LoopConditionOffByOne(attempt, maxRetries) == attempt <= maxRetries + 1

\* for (...; attempt <= maxRetries; ...)
LoopCondition(attempt, maxRetries) == attempt <= maxRetries

\* if (attempt < maxRetries) await this.delay(retryDelay)
DelaysBeforeRetry(attempt, maxRetries) == attempt < maxRetries

RECURSIVE Pow2(_)
Pow2(n) == IF n <= 0 THEN 1 ELSE 2 * Pow2(n - 1)

\* Changed the way a bug would: the wait doubles with every attempt.
RetryWaitExponential(retryDelay, attempt) == retryDelay * Pow2(attempt - 1)

\* this.delay(retryDelay): the wait after failed attempt `attempt`.
RetryWait(retryDelay, attempt) == retryDelay

IdleUpload ==
    [pc |-> "idle", owner |-> "none", file |-> File("", 0, ""), entityId |-> "",
     options |-> [maxRetries |-> 0, retryDelay |-> 0, maxSizeMB |-> 0],
     maxRetries |-> 0, retryDelay |-> 0, attempt |-> 0, lastError |-> NULL,
     outcomes |-> <<>>, waits |-> <<>>, result |-> NoResult]

\* The call's state on entry: the options are read and the loop starts at 1.
\* With maxRetries < 1 the loop body never runs and the call returns at once.
StartedUpload(file, entityId, options, owner) ==
    LET n == EffectiveMaxRetries(options) IN
    [IdleUpload EXCEPT
        !.pc = IF LoopCondition(1, n) THEN "attempt" ELSE "done",
        !.owner = owner, !.file = file, !.entityId = entityId, !.options = options,
        !.maxRetries = n, !.retryDelay = EffectiveRetryDelay(options),
        !.attempt = 1,
        !.result = IF LoopCondition(1, n) THEN NoResult ELSE UploadFailure(NULL, n)]

\* The catch block after the attempt failed with err, up to the next await or
\* the return.
AfterFailedAttempt(u, err) ==
    LET failed == [u EXCEPT !.lastError = err, !.outcomes = Append(@, err)] IN
    IF DelaysBeforeRetry(u.attempt, u.maxRetries)
    THEN [failed EXCEPT !.pc = "delay",
                        !.waits = Append(@, RetryWait(u.retryDelay, u.attempt))]
    ELSE IF LoopCondition(u.attempt + 1, u.maxRetries)
    THEN [failed EXCEPT !.pc = "attempt", !.attempt = u.attempt + 1]
    ELSE [failed EXCEPT !.pc = "done", !.attempt = u.attempt + 1,
                        !.result = UploadFailure(err, u.maxRetries)]

\* The wait is over: attempt++ and the loop condition.
AfterDelay(u) ==
    IF LoopCondition(u.attempt + 1, u.maxRetries)
    THEN [u EXCEPT !.pc = "attempt", !.attempt = u.attempt + 1]
    ELSE [u EXCEPT !.pc = "done", !.attempt = u.attempt + 1,
                   !.result = UploadFailure(u.lastError, u.maxRetries)]

\* A caller invokes uploadImage directly.
UploadImageCall ==
    /\ up.pc \in {"idle", "done"}
    /\ um.pc # "loop"
    /\ \E file \in UploadFiles, entityId \in EntityIds, options \in UploadOptions :
          up' = StartedUpload(file, entityId, options, "direct")
    /\ ev' = Step("uploadImage:call")
    /\ UNCHANGED <<cache, sdk, um>>

\* One pass of the loop body: compress, name, upload, and on success the
\* public URL, the cache entry and the return.
UploadImageAttempt ==
    /\ up.pc = "attempt"
    /\ \E outcome \in UploadOutcomes, stamp \in Stamps, lib \in {"compressed", "fails"} :
          LET compressed == compressImage(up.file, up.options, lib)
              storagePath == generateFilename(up.file.name, up.entityId, stamp)
              got == GetPublicUrlResult(cache, sdk, storagePath)
          IN IF outcome = "ok"
             THEN /\ cache' = [got.cache EXCEPT ![storagePath] = got.url]
                  /\ up' = [up EXCEPT
                              !.pc = "done",
                              !.outcomes = Append(@, "ok"),
                              !.result = UploadSuccess(storagePath, up.file, compressed,
                                                       got.url, up.attempt)]
                  /\ ev' = Event("uploadImage:ok", storagePath, got.url, got.consulted,
                                 TRUE)
             ELSE /\ up' = AfterFailedAttempt(up, outcome)
                  /\ ev' = Step("uploadImage:failed")
                  /\ UNCHANGED cache
    /\ UNCHANGED <<sdk, um>>

\* The timer of this.delay(retryDelay) fires.
UploadImageDelayElapsed ==
    /\ up.pc = "delay"
    /\ up' = AfterDelay(up)
    /\ ev' = Step("uploadImage:delay")
    /\ UNCHANGED <<cache, sdk, um>>

(***************************************************************************)
(* ImageService.uploadMultipleImages: the files one after another.         *)
(***************************************************************************)
SeqsUpTo(S, n) == UNION {[1..k -> S] : k \in 0..n}

IdleMulti ==
    [pc |-> "idle", files |-> <<>>, entityId |-> "",
     options |-> [maxRetries |-> 0, retryDelay |-> 0, maxSizeMB |-> 0],
     i |-> 0, results |-> <<>>, successfulUploads |-> <<>>, failedUploads |-> <<>>]

\* failedUploads.push({file: file.name, error: result.error, attempt: result.attempts})
FailedEntry(file, result) ==
    [file |-> file.name, error |-> result.error, attempt |-> result.attempts]

\* Changed the way a bug would: a failed upload is also pushed to
\* successfulUploads.
MultiCollectNoElse(m, file, result) ==
    [m EXCEPT !.results = Append(@, result),
              !.successfulUploads = Append(@, result.data),
              !.failedUploads = IF result.success THEN @
                                ELSE Append(@, FailedEntry(file, result))]

\* The loop body after uploadImage resolved: results.push and one of the two
\* other pushes.
MultiCollect(m, file, result) ==
    [m EXCEPT !.results = Append(@, result),
              !.successfulUploads = IF result.success THEN Append(@, result.data) ELSE @,
              !.failedUploads = IF result.success THEN @
                                ELSE Append(@, FailedEntry(file, result))]

\* The object uploadMultipleImages returns, from the arrays it built.
MultiReturn(m) ==
    [success |-> Len(m.failedUploads) = 0,
     results |-> m.results,
     successfulUploads |-> m.successfulUploads,
     failedUploads |-> m.failedUploads,
     summary |-> [total |-> Len(m.files),
                  successful |-> Len(m.successfulUploads),
                  failed |-> Len(m.failedUploads)]]

UploadMultipleCall ==
    /\ um.pc \in {"idle", "done"}
    /\ up.pc \in {"idle", "done"}
    /\ \E files \in SeqsUpTo(UploadFiles, MaxFiles), entityId \in EntityIds,
          options \in MultiOptions :
          LET m == [IdleMulti EXCEPT !.files = files, !.entityId = entityId,
                                     !.options = options, !.i = 1]
          IN IF Len(files) = 0
             THEN um' = [m EXCEPT !.pc = "done"] /\ up' = IdleUpload
             ELSE /\ um' = [m EXCEPT !.pc = "loop"]
                  /\ up' = StartedUpload(files[1], entityId, options, "multi")
    /\ ev' = Step("uploadMultipleImages:call")
    /\ UNCHANGED <<cache, sdk>>

\* `await this.uploadImage(...)` resolved for files[i]: the bookkeeping, then
\* the next file's upload or the return.
UploadMultipleNext ==
    /\ um.pc = "loop"
    /\ up.pc = "done"
    /\ up.owner = "multi"
    /\ LET m == MultiCollect(um, um.files[um.i], up.result)
       IN IF um.i < Len(um.files)
          THEN /\ um' = [m EXCEPT !.i = um.i + 1]
               /\ up' = StartedUpload(um.files[um.i + 1], um.entityId, um.options, "multi")
          ELSE /\ um' = [m EXCEPT !.pc = "done", !.i = um.i + 1]
               /\ up' = IdleUpload
    /\ ev' = Step("uploadMultipleImages:next")
    /\ UNCHANGED <<cache, sdk>>

(***************************************************************************)
(* getPublicUrl, deleteImage and clearCache as operations, and the storage *)
(* SDK changing its answer.                                                *)
(***************************************************************************)
GetPublicUrl ==
    /\ \E storagePath \in Paths :
          LET got == GetPublicUrlResult(cache, sdk, storagePath)
          IN /\ cache' = got.cache
             /\ ev' = Event("getPublicUrl", storagePath, got.url, got.consulted, TRUE)
    /\ UNCHANGED <<sdk, up, um>>

\* Changed the way a bug would: the cache entry goes before the removal is
\* known to have succeeded.
CacheAfterDeleteEager(c, storagePath, removal) == [c EXCEPT ![storagePath] = AbsentUrl]

\* The cache after deleteImage(storagePath) when storage.remove ended as
\* `removal`: "ok", "error" (returned) or "throw".
CacheAfterDelete(c, storagePath, removal) ==
    IF removal = "ok" THEN [c EXCEPT ![storagePath] = AbsentUrl] ELSE c

DeleteImage ==
    /\ \E storagePath \in Paths, removal \in {"ok", "error", "throw"} :
          /\ cache' = CacheAfterDelete(cache, storagePath, removal)
          /\ ev' = Event("deleteImage", storagePath, AbsentUrl, FALSE, removal = "ok")
    /\ UNCHANGED <<sdk, up, um>>

ClearCache ==
    /\ cache' = [p \in Paths |-> AbsentUrl]
    /\ ev' = Step("clearCache")
    /\ UNCHANGED <<sdk, up, um>>

SdkChanges ==
    /\ \E answer \in SdkAnswers \ {sdk} : sdk' = answer
    /\ ev' = Step("sdk")
    /\ UNCHANGED <<cache, up, um>>

(***************************************************************************)
(* ImageService.validateFile.                                              *)
(***************************************************************************)
\* options of validateFile: which of maxSize and allowedTypes the caller
\* passes, and their values.
ValidateOptions ==
    {[givesMaxSize |-> FALSE, maxSize |-> 0,
      givesAllowedTypes |-> FALSE, allowedTypes |-> {}],
     \* CreatePost.handleImageUpload (CreatePost.js 92-95)
     [givesMaxSize |-> TRUE, maxSize |-> 5 * BytesPerMB,
      givesAllowedTypes |-> TRUE,
      allowedTypes |-> {"image/jpeg", "image/png", "image/gif", "image/webp"}],
     [givesMaxSize |-> TRUE, maxSize |-> 0,
      givesAllowedTypes |-> FALSE, allowedTypes |-> {}],
     [givesMaxSize |-> FALSE, maxSize |-> 0,
      givesAllowedTypes |-> TRUE, allowedTypes |-> {"application/pdf"}],
     [givesMaxSize |-> TRUE, maxSize |-> 2097153,
      givesAllowedTypes |-> TRUE, allowedTypes |-> {}]}

\* { maxSize: IMAGE_CONFIG.maxSizeMB * 1024 * 1024,
\*   allowedTypes: IMAGE_CONFIG.allowedTypes, ...options }
ValidateConfig(options) ==
    [maxSize |-> IF options.givesMaxSize THEN options.maxSize
                 ELSE ConfigMaxSizeMB * BytesPerMB,
     allowedTypes |-> IF options.givesAllowedTypes THEN options.allowedTypes
                      ELSE ConfigAllowedTypes]

\* Changed the way a bug would: a file exactly at the ceiling is refused.
SizeExceedsInclusive(size, maxSize) == size >= maxSize

\* file.size > config.maxSize
SizeExceeds(size, maxSize) == size > maxSize

\* `File size exceeds <maxSize / 2^20>MB limit`, kept as the limit it names.
SizeMessage(maxSize) == [rule |-> "size", limit |-> maxSize, type |-> ""]

\* `File type <type> is not allowed`
TypeMessage(type) == [rule |-> "type", limit |-> 0, type |-> type]

validateFile(file, options) ==
    LET config == ValidateConfig(options)
        sizeErrors == IF SizeExceeds(file.size, config.maxSize)
                      THEN <<SizeMessage(config.maxSize)>> ELSE <<>>
        errors == IF file.type \notin config.allowedTypes
                  THEN Append(sizeErrors, TypeMessage(file.type)) ELSE sizeErrors
    IN [valid |-> Len(errors) = 0, errors |-> errors, file |-> file]

NoValidation ==
    [called |-> FALSE, file |-> File("", 0, ""),
     options |-> [givesMaxSize |-> FALSE, maxSize |-> 0,
                  givesAllowedTypes |-> FALSE, allowedTypes |-> {}],
     result |-> [valid |-> FALSE, errors |-> <<>>, file |-> File("", 0, "")]]

\* A caller validates a file.
ValidateFile ==
    \E name \in FileNames, size \in FileSizes, type \in FileTypes,
       options \in ValidateOptions :
        vf' = [called |-> TRUE, file |-> File(name, size, type), options |-> options,
               result |-> validateFile(File(name, size, type), options)]

(***************************************************************************)
(* retryUpload and batchUploadWithRetry (utils/supabase.js).               *)
(***************************************************************************)
\* An error value: a string, an object carrying a message (an Error thrown or
\* an error object returned), or undefined.
Err(kind, message) == [kind |-> kind, message |-> message]
NoErr == Err("undefined", "")

\* What one invocation of uploadFunction() ends in.
Returns(success, error) == [type |-> "returns", success |-> success, error |-> error]
Throws(message) == [type |-> "throws", success |-> FALSE, error |-> Err("exception", message)]

UploadFunctionOutcomes ==
    {Returns(TRUE, NoErr),
     Returns(FALSE, Err("string", "Network down")),
     Returns(FALSE, Err("string", "Invalid file type")),
     Returns(FALSE, Err("string", "upload validation failed")),
     Returns(FALSE, Err("object", "Invalid file type")),
     Returns(FALSE, NoErr),
     Throws("Invalid file type"),
     Throws("Network down")}

\* message.includes('Invalid file') || message.includes('validation')
MentionsValidation(message) ==
    message \in {"Invalid file type", "upload validation failed"}

\* result.error?.includes('Invalid file') || result.error?.includes('validation'):
\* "yes", "no", or "TypeError" when error is an object, which has no includes.
ValidationTest(error) ==
    CASE error.kind = "undefined" -> "no"
      [] error.kind = "string" -> IF MentionsValidation(error.message) THEN "yes" ELSE "no"
      [] OTHER -> "TypeError"

IncludesTypeError == Err("exception", "result.error?.includes is not a function")

\* delay * Math.pow(2, attempt - 1)
BackoffDelay(delay, attempt) == delay * Pow2(attempt - 1)

RetryDefaultMaxRetries == 3
RetryDefaultDelay == 1000
BatchDefaultMaxRetries == 2
BatchDefaultBatchSize == 3

\* One retryUpload call: where it is, the attempt it is on, how often it has
\* invoked uploadFunction, the error its latest attempt reported (result.error
\* or the exception), the waits it has made and what it resolved to.
NoRetryResult == [success |-> FALSE, error |-> NoErr]

StartedRetry(maxRetries) ==
    [pc |-> IF 1 <= maxRetries THEN "inflight" ELSE "settled",
     attempt |-> 1,
     calls |-> IF 1 <= maxRetries THEN 1 ELSE 0,
     lastError |-> NoErr,
     reported |-> NoErr,
     waits |-> <<>>,
     result |-> IF 1 <= maxRetries THEN NoRetryResult
                ELSE [success |-> FALSE,
                      error |-> Err("string", "Upload failed after multiple attempts")]]

\* { success: false, error: lastError || 'Upload failed after multiple attempts' }
RetryFailure(lastError) ==
    [success |-> FALSE,
     error |-> IF lastError.kind = "undefined" \/ lastError = Err("string", "")
               THEN Err("string", "Upload failed after multiple attempts")
               ELSE lastError]

RetryBacksOff(r, lastError, delay) ==
    [r EXCEPT !.pc = "backoff", !.lastError = lastError,
              !.waits = Append(@, BackoffDelay(delay, r.attempt))]

\* The loop body of retryUpload from the point uploadFunction() has ended in
\* `outcome`, up to the next await or the return.
RetryAfterOutcome(r, outcome, delay) ==
    LET r1 == [r EXCEPT !.reported = outcome.error]
    IN IF outcome.type = "throws"
       THEN RetryBacksOff(r1, outcome.error, delay)
       ELSE IF outcome.success
       THEN [r1 EXCEPT !.pc = "settled", !.result = [success |-> TRUE, error |-> NoErr]]
       ELSE CASE ValidationTest(outcome.error) = "yes" ->
                   [r1 EXCEPT !.pc = "settled", !.lastError = outcome.error,
                              !.result = RetryFailure(outcome.error)]
              [] ValidationTest(outcome.error) = "TypeError" ->
                   RetryBacksOff(r1, IncludesTypeError, delay)
              [] OTHER -> RetryBacksOff(r1, outcome.error, delay)

\* The backoff timer fired: attempt++ and the loop condition.
RetryAfterBackoff(r, maxRetries) ==
    IF r.attempt + 1 <= maxRetries
    THEN [r EXCEPT !.pc = "inflight", !.attempt = r.attempt + 1, !.calls = r.calls + 1]
    ELSE [r EXCEPT !.pc = "settled", !.attempt = r.attempt + 1,
                   !.result = RetryFailure(r.lastError)]

BatchFiles == {"f1", "f2"}
\* options.maxRetries and options.batchSize; 0 stands for not passed.
BatchMaxRetriesOptions == {0, 1}
BatchSizeOptions == {0, 1, 2}

IdleBatch ==
    [pc |-> "idle", files |-> <<>>, maxRetries |-> 0, batchSize |-> 0, i |-> 0,
     results |-> <<>>, successfulUploads |-> <<>>, failedUploads |-> <<>>]

\* Changed the way a bug would: the slice runs to the end of the list.
BatchSliceToEnd(files, i, batchSize) == SubSeq(files, i, Len(files))

\* files.slice(i, i + batchSize), i counted from 1.
BatchSlice(files, i, batchSize) ==
    SubSeq(files, i, IF i + batchSize - 1 < Len(files) THEN i + batchSize - 1
                     ELSE Len(files))

\* batch.map(file => retryUpload(() => uploadFunction(file), maxRetries)): every
\* call runs up to its first await, so every file's first upload is in flight.
LaunchBatch(files, i, batchSize, maxRetries) ==
    [k \in 1..Len(BatchSlice(files, i, batchSize)) |-> StartedRetry(maxRetries)]

\* Changed the way a bug would: a failed upload is pushed to both lists.
BatchPushBoth(b, file, uploadResult) ==
    [b EXCEPT
       !.results = Append(@, uploadResult),
       !.successfulUploads = Append(@, [file |-> file]),
       !.failedUploads =
           IF uploadResult.success THEN @
           ELSE Append(@, [file |-> file, error |-> uploadResult.error])]

\* results.push(uploadResult) and the push to one of the two lists.  By
\* retryUpload's every exit resolving, each settled promise is fulfilled.
BatchPush(b, file, uploadResult) ==
    [b EXCEPT
       !.results = Append(@, uploadResult),
       !.successfulUploads =
           IF uploadResult.success THEN Append(@, [file |-> file]) ELSE @,
       !.failedUploads =
           IF uploadResult.success THEN @
           ELSE Append(@, [file |-> file, error |-> uploadResult.error])]

RECURSIVE CollectBatch(_, _, _, _)
\* batchResults.forEach(...) over slots k..Len(slots) of the batch at files[i..].
CollectBatch(b, slots, i, k) ==
    IF k > Len(slots) THEN b
    ELSE CollectBatch(BatchPush(b, b.files[i + k - 1], slots[k].result), slots, i, k + 1)

\* The object batchUploadWithRetry returns.
BatchReturn(b) ==
    [success |-> Len(b.failedUploads) = 0,
     results |-> b.results,
     successfulUploads |-> b.successfulUploads,
     failedUploads |-> b.failedUploads,
     summary |-> [total |-> Len(b.files),
                  successful |-> Len(b.successfulUploads),
                  failed |-> Len(b.failedUploads)]]

BatchUploadCall ==
    /\ bu.pc \in {"idle", "done"}
    /\ \E files \in SeqsUpTo(BatchFiles, MaxFiles), mr \in BatchMaxRetriesOptions,
          bs \in BatchSizeOptions :
          LET maxRetries == IF mr = 0 THEN BatchDefaultMaxRetries ELSE mr
              batchSize == IF bs = 0 THEN BatchDefaultBatchSize ELSE bs
              b == [IdleBatch EXCEPT !.files = files, !.maxRetries = maxRetries,
                                     !.batchSize = batchSize, !.i = 1]
          IN IF Len(files) = 0
             THEN bu' = [b EXCEPT !.pc = "done"] /\ ru' = <<>>
             ELSE /\ bu' = [b EXCEPT !.pc = "batch"]
                  /\ ru' = LaunchBatch(files, 1, batchSize, maxRetries)

\* The upload function of one file of the current batch ends.
RetryAttemptEnds ==
    /\ bu.pc = "batch"
    /\ \E k \in 1..Len(ru), outcome \in UploadFunctionOutcomes :
          /\ ru[k].pc = "inflight"
          /\ ru' = [ru EXCEPT ![k] = RetryAfterOutcome(ru[k], outcome, RetryDefaultDelay)]
    /\ UNCHANGED bu

\* The backoff timer of one file of the current batch fires.
RetryBackoffElapses ==
    /\ bu.pc = "batch"
    /\ \E k \in 1..Len(ru) :
          /\ ru[k].pc = "backoff"
          /\ ru' = [ru EXCEPT ![k] = RetryAfterBackoff(ru[k], bu.maxRetries)]
    /\ UNCHANGED bu

\* Promise.allSettled resolved: the bookkeeping of the batch, then the next
\* batch or the return.
BatchSettles ==
    /\ bu.pc = "batch"
    /\ \A k \in 1..Len(ru) : ru[k].pc = "settled"
    /\ LET b == CollectBatch(bu, ru, bu.i, 1)
           next == bu.i + bu.batchSize
       IN IF next <= Len(bu.files)
          THEN /\ bu' = [b EXCEPT !.i = next]
               /\ ru' = LaunchBatch(bu.files, next, bu.batchSize, bu.maxRetries)
          ELSE /\ bu' = [b EXCEPT !.pc = "done", !.i = next]
               /\ ru' = <<>>

(***************************************************************************)
(* apiClient: src/utils/apiClient.js ("main", the token comes from the     *)
(* auth SDK's session) and ExtraFiles/src/utils/apiClient.js ("extra", the *)
(* token comes from localStorage).                                         *)
(***************************************************************************)
Clients == {"main", "extra"}
Methods == {"get", "post", "put", "delete"}
Tokens == {"t1", "t2"}

\* The auth SDK's session: none, or one with an access token ("" is a session
\* whose access_token is empty).
NoSession == [present |-> FALSE, access_token |-> ""]
SessionWith(token) == [present |-> TRUE, access_token |-> token]
Sessions == {NoSession} \cup {SessionWith(t) : t \in Tokens \cup {""}}

\* How supabase.auth.getSession() ends: with the session, with {error}, or by
\* throwing.
Lookups == {"ok", "error", "throws"}

\* Changed the way a bug would: the error of the lookup is ignored.
getAuthTokenIgnoringError(s, lookup) ==
    IF lookup = "throws" THEN NULL
    ELSE IF s.present /\ s.access_token # "" THEN s.access_token ELSE NULL

\* getAuthToken of the main client: session?.access_token || null, and null
\* when the lookup gives an error or throws.
getAuthToken(s, lookup) ==
    IF lookup # "ok" THEN NULL
    ELSE IF s.present /\ s.access_token # "" THEN s.access_token ELSE NULL

\* A localStorage item: absent, not JSON, or JSON carrying the token under
\* currentSession.access_token, access_token, session.access_token, or nowhere.
Item(form, token) == [form |-> form, token |-> token]
NoItem == Item("absent", "")
\* localStorage as the extra client reads it: the three keys it parses, in the
\* order it tries them, and the key access_token.
Store(k1, k2, k3, direct) ==
    [parsed |-> <<k1, k2, k3>>, direct |-> direct]
EmptyStore == Store(NoItem, NoItem, NoItem, NoItem)
Stores ==
    {EmptyStore,
     Store(Item("currentSession", "t1"), NoItem, NoItem, NoItem),
     Store(Item("notJson", ""), Item("access_token", "t2"), NoItem, Item("raw", "t1")),
     Store(Item("other", ""), NoItem, Item("session", "t1"), NoItem)}

RECURSIVE FirstParsedToken(_, _)
\* The for-loop over possibleKeys from key k on.
FirstParsedToken(store, k) ==
    IF k > Len(store.parsed) THEN NULL
    ELSE IF store.parsed[k].form \in {"currentSession", "access_token", "session"}
         THEN store.parsed[k].token
         ELSE FirstParsedToken(store, k + 1)

\* getAuthToken of the extra client.
getStoredAuthToken(store) ==
    IF FirstParsedToken(store, 1) # NULL THEN FirstParsedToken(store, 1)
    ELSE IF store.direct.form # "absent" THEN store.direct.token
    ELSE NULL

\* headers["Authorization"] = `Bearer ${token}` when token is truthy.
NoHeader == [scheme |-> "none", token |-> ""]
AuthorizationHeader(token) ==
    IF token # NULL /\ token # "" THEN [scheme |-> "Bearer", token |-> token]
    ELSE NoHeader

\* The response bodies the server may send, as text.
Bodies == {"json:error", "json:message", "json:plain", "json:null", "text", "empty"}
JsonObject(error, message) == [kind |-> "object", error |-> error, message |-> message]
JsonNull == [kind |-> "null", error |-> "", message |-> ""]

IsJson(body) == body \in {"json:error", "json:message", "json:plain", "json:null"}

\* JSON.parse of the body (response.json()); applies where IsJson(body).
ParseJson(body) ==
    CASE body = "json:error" -> JsonObject("Server says no", "")
      [] body = "json:message" -> JsonObject("", "Server message")
      [] body = "json:plain" -> JsonObject("", "")
      [] OTHER -> JsonNull

\* The message of the SyntaxError JSON.parse throws on a body that is not JSON.
SyntaxErrorMessage(body) ==
    IF body = "empty" THEN "Unexpected end of JSON input"
    ELSE "Unexpected token in JSON"

\* response.text()
BodyText(body) == IF body = "empty" THEN "" ELSE "Not Found"

Statuses == {200, 400}
ResponseOk(status) == status >= 200 /\ status <= 299

\* `HTTP ${response.status}`
HttpStatusMessage(status) ==
    IF status = 400 THEN "HTTP 400" ELSE "HTTP 200"

\* What fetch resolves to, or its rejection.
Response(status, jsonContentType, body) ==
    [failed |-> FALSE, status |-> status, jsonContentType |-> jsonContentType,
     body |-> body]
NetworkFailure == [failed |-> TRUE, status |-> 0, jsonContentType |-> FALSE,
                   body |-> "empty"]
Responses ==
    {NetworkFailure} \cup
    {Response(st, ct, b) : st \in Statuses, ct \in BOOLEAN, b \in Bodies}

ApiResult(success, data, error, status) ==
    [success |-> success, data |-> data, error |-> error, status |-> status]

\* The catch block: error.message || "Network error. Please try again later."
Caught(message) ==
    ApiResult(FALSE, JsonNull,
              IF message = "" THEN "Network error. Please try again later."
              ELSE message, 0)

\* a || b on strings, "" standing for undefined as well.
OrElse(a, b) == IF a # "" THEN a ELSE b

\* The return statement after the body was read as `data`; errorOf is the
\* expression of the error field.  Reading a property of null throws.
Normalised(response, data, errorOf, status) ==
    IF ResponseOk(response.status)
    THEN ApiResult(TRUE, data, NULL, status)
    ELSE IF data.kind = "null"
    THEN Caught("Cannot read properties of null (reading 'error')")
    ELSE ApiResult(FALSE, JsonNull, errorOf, status)

\* get of the main client (apiClient.js 37-58): the non-JSON branch parses the
\* text and falls back to { error: text || "Request failed" }.
MainGetResult(response) ==
    IF response.failed THEN Caught("Failed to fetch")
    ELSE IF response.jsonContentType /\ ~IsJson(response.body)
    THEN Caught(SyntaxErrorMessage(response.body))
    ELSE LET data == IF IsJson(response.body) THEN ParseJson(response.body)
                     ELSE JsonObject(OrElse(BodyText(response.body), "Request failed"), "")
         IN Normalised(response, data,
                       OrElse(data.error,
                              OrElse(data.message, HttpStatusMessage(response.status))),
                       response.status)

\* The error field of the other methods: responseData.error, with
\* "Failed to delete resource" as the fallback of delete only.
PlainErrorField(method, data) ==
    IF method = "delete" THEN OrElse(data.error, "Failed to delete resource")
    ELSE IF data.error = "" THEN UNDEFINED ELSE data.error

\* post, put and delete of both clients and get of the extra client: the body
\* is read with response.json() whatever the content type.
PlainResult(method, response) ==
    IF response.failed THEN Caught("Failed to fetch")
    ELSE IF ~IsJson(response.body) THEN Caught(SyntaxErrorMessage(response.body))
    ELSE Normalised(response, ParseJson(response.body),
                    PlainErrorField(method, ParseJson(response.body)), 0)

ApiCallResult(client, method, response) ==
    IF client = "main" /\ method = "get" THEN MainGetResult(response)
    ELSE PlainResult(method, response)

\* The token the client attaches.
ClientToken(client, s, lookup, store) ==
    IF client = "main" THEN getAuthToken(s, lookup) ELSE getStoredAuthToken(store)

\* The message of the TypeError JSON.stringify throws on a circular structure.
StringifyErrorMessage == "Converting circular structure to JSON"

NoCall ==
    [done |-> FALSE, client |-> "main", method |-> "get", lookup |-> "ok",
     body |-> "none", sent |-> FALSE, authorization |-> NoHeader,
     response |-> NetworkFailure, result |-> Caught("")]

\* body: JSON.stringify(data) for post and put, no body for get and delete.
RequestBody(method) == IF method \in {"post", "put"} THEN "json" ELSE "none"

\* The clients with the ways their token lookup can end.
ClientLookups == ({"main"} \X Lookups) \cup {<<"extra", "ok">>}

\* apiClient.get/post/put/delete(endpoint, data): the token lookup, the
\* headers, the fetch, the reading of the response and the return.
ApiCall ==
    /\ \E cl \in ClientLookups, method \in Methods, response \in Responses :
          call' = [done |-> TRUE, client |-> cl[1], method |-> method,
                   lookup |-> cl[2], body |-> RequestBody(method), sent |-> TRUE,
                   authorization |->
                       AuthorizationHeader(ClientToken(cl[1], session, cl[2], localStore)),
                   response |-> response,
                   result |-> ApiCallResult(cl[1], method, response)]
    /\ net' = net \cup {"api"}
    /\ UNCHANGED <<session, localStore>>

\* apiClient.post/put(endpoint, data) with a data JSON.stringify throws on:
\* the catch block returns before fetch is reached.
ApiCallUnserialisable ==
    /\ \E cl \in ClientLookups, method \in {"post", "put"} :
          call' = [done |-> TRUE, client |-> cl[1], method |-> method,
                   lookup |-> cl[2], body |-> "circular", sent |-> FALSE,
                   authorization |->
                       AuthorizationHeader(ClientToken(cl[1], session, cl[2], localStore)),
                   response |-> NetworkFailure,
                   result |-> Caught(StringifyErrorMessage)]
    /\ UNCHANGED <<session, localStore, net>>

\* The auth SDK signs in, refreshes or signs out.
SessionChanges ==
    /\ \E s \in Sessions \ {session} : session' = s
    /\ UNCHANGED <<localStore, call, net>>

\* localStorage is written by the auth SDK or another tab.
LocalStorageChanges ==
    /\ \E st \in Stores \ {localStore} : localStore' = st
    /\ UNCHANGED <<session, call, net>>

(***************************************************************************)
(* CreatePost (components/posts/CreatePost.js).  Its validators come from  *)
(* utils/security, which is not among the repository's files: they are     *)
(* modelled after the specification's words (required fields, numeric      *)
(* ranges).                                                                *)
(***************************************************************************)
Titles == {"", " ", "Bike"}
Descriptions == {"", "Good bike"}
Prices == {"", "abc", "0", "0.01", "999999.99", "1000000"}
Categories == {"", "Electronics"}
Users == {NULL, "u1"}

\* sanitizeInput (utils/security): cleans the text; of the values above only
\* the blank one changes.
sanitizeInput(value) == IF value = " " THEN "" ELSE value

NotANumber == -1
\* The number a price text stands for, in cents.
PriceInCents(value) ==
    CASE value = "0" -> 0
      [] value = "0.01" -> 1
      [] value = "999999.99" -> 99999999
      [] value = "1000000" -> 100000000
      [] OTHER -> NotANumber

\* { min: 0.01, max: 999999.99 }, in cents.
PriceMinCents == 1
PriceMaxCents == 99999999

Verdict(valid, error) == [valid |-> valid, error |-> error]

\* validateFormInput (utils/security): a text must not be empty, a number must
\* be numeric and within [min, max]; a failed verdict carries a message.
validateFormInput(value, kind, min, max) ==
    IF kind = "text"
    THEN IF value # "" THEN Verdict(TRUE, NULL)
         ELSE Verdict(FALSE, "This field is required")
    ELSE IF PriceInCents(value) # NotANumber /\ PriceInCents(value) >= min
            /\ PriceInCents(value) <= max
         THEN Verdict(TRUE, NULL)
         ELSE Verdict(FALSE, "Please enter a valid number")

\* Changed the way a bug would: the check of the logged-in user is missing.
validateFormWithoutUserCheck(form, user) ==
    LET titleValidation == validateFormInput(sanitizeInput(form.title), "text", 0, 0)
        descriptionValidation ==
            validateFormInput(sanitizeInput(form.description), "text", 0, 0)
        priceValidation ==
            validateFormInput(sanitizeInput(form.price), "number",
                              PriceMinCents, PriceMaxCents)
    IN IF ~titleValidation.valid THEN titleValidation
       ELSE IF ~descriptionValidation.valid THEN descriptionValidation
       ELSE IF ~priceValidation.valid THEN priceValidation
       ELSE IF form.category = "" THEN Verdict(FALSE, "Please select a category")
       ELSE Verdict(TRUE, NULL)

\* validateForm: its return value, and the message it hands to setError.
validateForm(form, user) ==
    LET titleValidation == validateFormInput(sanitizeInput(form.title), "text", 0, 0)
        descriptionValidation ==
            validateFormInput(sanitizeInput(form.description), "text", 0, 0)
        priceValidation ==
            validateFormInput(sanitizeInput(form.price), "number",
                              PriceMinCents, PriceMaxCents)
    IN IF ~titleValidation.valid THEN titleValidation
       ELSE IF ~descriptionValidation.valid THEN descriptionValidation
       ELSE IF ~priceValidation.valid THEN priceValidation
       ELSE IF form.category = "" THEN Verdict(FALSE, "Please select a category")
       ELSE IF user = NULL
       THEN Verdict(FALSE, "You must be logged in to create a post")
       ELSE Verdict(TRUE, NULL)

EmptyForm == [title |-> "", description |-> "", price |-> "", category |-> ""]
FormValues ==
    [title : Titles, description : Descriptions, price : Prices,
     category : Categories]

\* The last handleSubmit call: the form and user it read.
NoSubmit == [made |-> FALSE, form |-> EmptyForm, user |-> NULL]
Submit(form, user) == [made |-> TRUE, form |-> form, user |-> user]

\* The file input is disabled from this many previews on.
MaxImagePreviews == 5

\* What handleImageUpload does with one chosen file: adds its preview, refuses
\* it (validateFile), or fails to read it (createImagePreview).
PickOutcomes == {"added", "invalid", "unreadable"}
Picks == {<<a>> : a \in PickOutcomes} \cup
         {<<a, b>> : a \in PickOutcomes, b \in PickOutcomes}

RECURSIVE PickError(_, _, _)
\* The error state after the loop over the chosen files from file k on.
PickError(picked, k, error) ==
    IF k > Len(picked) THEN error
    ELSE PickError(picked, k + 1,
                   CASE picked[k] = "invalid" -> "File validation failed"
                     [] picked[k] = "unreadable" ->
                          "Failed to process image. Please try again."
                     [] OTHER -> error)

\* newPreviews.length
PickAdded(picked) == Cardinality({k \in 1..Len(picked) : picked[k] = "added"})

\* The component after mounting: the useState initial values.  posted
\* remembers postResponse.success of the submission under way or last made:
\* "none" before the response, then "created" or "refused".
MountedCreatePost(user) ==
    [user |-> user, form |-> EmptyForm, previews |-> 0, error |-> NULL,
     loading |-> FALSE, pc |-> "idle", submit |-> NoSubmit, sent |-> <<>>,
     posted |-> "none"]

\* handleChange: the inputs are disabled while loading.
HandleChange ==
    /\ cp.pc = "idle"
    /\ \E form \in FormValues :
          /\ Cardinality({f \in DOMAIN form : form[f] # cp.form[f]}) = 1
          /\ cp' = [cp EXCEPT !.form = form, !.submit = NoSubmit, !.sent = <<>>,
                              !.posted = "none"]
    /\ UNCHANGED net

\* useAuth().user changes: the visitor logs in or out.
AuthUserChanges ==
    /\ \E u \in Users \ {cp.user} : cp' = [cp EXCEPT !.user = u]
    /\ UNCHANGED net

HandleImageUpload ==
    /\ cp.pc = "idle"
    /\ cp.previews < MaxImagePreviews
    /\ \E picked \in Picks :
          cp' = [cp EXCEPT !.previews = @ + PickAdded(picked),
                           !.error = PickError(picked, 1, @)]
    /\ UNCHANGED net

RemoveImage ==
    /\ cp.pc = "idle"
    /\ cp.previews > 0
    /\ cp' = [cp EXCEPT !.previews = @ - 1]
    /\ UNCHANGED net

\* handleSubmit up to its first await: validateForm, and when it passes
\* setLoading(true), setError(null) and apiClient.post('/api/posts', postData).
HandleSubmit ==
    /\ cp.pc = "idle"
    /\ LET v == validateForm(cp.form, cp.user)
       IN IF ~v.valid
          THEN /\ cp' = [cp EXCEPT !.error = v.error,
                                   !.submit = Submit(cp.form, cp.user),
                                   !.sent = <<>>, !.posted = "none"]
               /\ UNCHANGED net
          ELSE /\ cp' = [cp EXCEPT !.error = NULL, !.loading = TRUE,
                                   !.pc = "posting",
                                   !.submit = Submit(cp.form, cp.user),
                                   !.sent = <<"POST /api/posts">>,
                                   !.posted = "none"]
               /\ net' = net \cup {"api"}

PostOutcomes == {"created", "createdNullData", "refused", "refusedNoError"}

\* handleSubmit after apiClient.post resolved, up to uploadImages or the end.
PostResolves ==
    /\ cp.pc = "posting"
    /\ \E outcome \in PostOutcomes :
          CASE outcome \in {"refused", "refusedNoError"} ->
                 /\ cp' = [cp EXCEPT
                        !.error = IF outcome = "refused" THEN "Server says no"
                                  ELSE "Failed to create post. Please try again.",
                        !.loading = FALSE, !.pc = "idle", !.posted = "refused"]
                 /\ UNCHANGED net
            [] outcome \in {"created", "createdNullData"} /\ cp.previews = 0 ->
                 /\ cp' = [cp EXCEPT !.loading = FALSE, !.pc = "navigated",
                                     !.posted = "created"]
                 /\ UNCHANGED net
            [] outcome = "createdNullData" /\ cp.previews > 0 ->
                 \* postResponse.data.id throws, the catch block reports it
                 /\ cp' = [cp EXCEPT
                        !.error = "Failed to create post. Please try again.",
                        !.loading = FALSE, !.pc = "idle", !.posted = "created"]
                 /\ UNCHANGED net
            [] OTHER ->
                 /\ cp' = [cp EXCEPT !.pc = "uploading", !.posted = "created",
                                     !.sent = Append(@, "storage upload")]
                 /\ net' = net \cup {"storage"}

UploadsOutcomes == {"allStored", "someFailed", "threw"}

\* handleSubmit after uploadImages resolved: the metadata request when every
\* upload succeeded, the error for failed uploads, navigate('/').
UploadsResolve ==
    /\ cp.pc = "uploading"
    /\ \E outcome \in UploadsOutcomes :
          IF outcome = "allStored"
          THEN /\ cp' = [cp EXCEPT
                      !.sent = Append(@, "POST /api/images/store-metadata"),
                      !.loading = FALSE, !.pc = "navigated"]
               /\ net' = net \cup {"api"}
          ELSE /\ cp' = [cp EXCEPT
                      !.error = "Post created successfully! However, image(s) failed to upload",
                      !.loading = FALSE, !.pc = "navigated"]
               /\ UNCHANGED net

\* The page is opened again after navigate('/') left it.
CreatePostRemounts ==
    /\ cp.pc = "navigated"
    /\ cp' = MountedCreatePost(cp.user)
    /\ UNCHANGED net

(***************************************************************************)
(* ChatPage (components/ChatPage.js), demo mode.                           *)
(***************************************************************************)
MaxSessions == 2
MaxMessages == 2

DemoUser == "demo-user-id"
\* Date.now().toString() of the sessions created.
SessionIds == {"1", "2"}
\* The initialSession prop: none, or a session handed in by the caller.
InitialSessions == {NULL, "initial"}
\* What the visitor types.
Inputs == {"", " ", "hi", " yo "}

\* String.prototype.trim on the inputs above.
Trim(text) ==
    CASE text = " " -> ""
      [] text = " yo " -> "yo"
      [] OTHER -> text

ChatMessage(content, user) == [content |-> content, sender_id |-> user]

\* The component before it is mounted and after it is unmounted: no state.
\* dropped remembers how many sessions the last unmount discarded.
UnmountedChat(dropped) ==
    [mounted |-> FALSE, user |-> NULL, sessions |-> <<>>, activeSession |-> NULL,
     messages |-> <<>>, newMessage |-> "", dropped |-> dropped]

\* The useState initial values, then the mount effect: initializeChat sets the
\* demo user and empty lists, and an initialSession becomes the active one.
MountedChat(initialSession, dropped) ==
    [mounted |-> TRUE, user |-> DemoUser, sessions |-> <<>>,
     activeSession |-> initialSession, messages |-> <<>>, newMessage |-> "",
     dropped |-> dropped]

\* Changed the way a bug would: sending a message posts it to the server.
ChatRequestsPosting(op) == IF op = "handleSendMessage" THEN {"api"} ELSE {}

\* The network requests a ChatPage operation issues: none, each works on the
\* component's state only.
ChatRequests(op) == {}

ChatMounts ==
    /\ ~chat.mounted
    /\ \E initialSession \in InitialSessions :
          chat' = MountedChat(initialSession, chat.dropped)
    /\ net' = net \cup ChatRequests("initializeChat")
    /\ UNCHANGED localStore

\* The cleanup of the mount effect; the component state is gone.
ChatUnmounts ==
    /\ chat.mounted
    /\ chat' = UnmountedChat(Len(chat.sessions))
    /\ UNCHANGED <<net, localStore>>

HandleInputChange ==
    /\ chat.mounted
    /\ \E value \in Inputs \ {chat.newMessage} :
          chat' = [chat EXCEPT !.newMessage = value]
    /\ UNCHANGED <<net, localStore>>

HandleSendMessage ==
    /\ chat.mounted
    /\ Len(chat.messages) < MaxMessages
    /\ IF Trim(chat.newMessage) = "" \/ chat.user = NULL
       THEN UNCHANGED <<chat, net>>
       ELSE /\ chat' = [chat EXCEPT
                   !.messages = Append(@, ChatMessage(Trim(chat.newMessage), chat.user)),
                   !.newMessage = ""]
            /\ net' = net \cup ChatRequests("handleSendMessage")
    /\ UNCHANGED localStore

\* handleSessionSelect(session): the session becomes active, messages empty.
SessionSelected(c, id) == [c EXCEPT !.activeSession = id, !.messages = <<>>]

HandleSessionSelect ==
    /\ chat.mounted
    /\ \E k \in 1..Len(chat.sessions) :
          chat' = SessionSelected(chat, chat.sessions[k])
    /\ net' = net \cup ChatRequests("handleSessionSelect")
    /\ UNCHANGED localStore

HandleCreateNewSession ==
    /\ chat.mounted
    /\ Len(chat.sessions) < MaxSessions
    /\ IF chat.user = NULL
       THEN UNCHANGED <<chat, net>>
       ELSE /\ \E id \in SessionIds :
                  chat' = SessionSelected(
                              [chat EXCEPT !.sessions = <<id>> \o @], id)
            /\ net' = net \cup ChatRequests("handleCreateNewSession")
    /\ UNCHANGED localStore

(***************************************************************************)
(* AuthProvider (contexts/AuthContext.js) over the auth utilities and the   *)
(* mock client of utils/supabase.js.                                       *)
(***************************************************************************)
AuthClients == {"mock", "real"}
AuthUsers == {"u1", "u2"}

\* An error object of the SDK: its message and its code ("" for none).
SdkErr(message, code) == [message |-> message, code |-> code]
NoSdkErr == SdkErr("", "")

NotConfiguredMessage ==
    "Supabase not configured. Please set REACT_APP_SUPABASE_URL and REACT_APP_SUPABASE_KEY."
NotConfiguredError == SdkErr(NotConfiguredMessage, "SUPABASE_NOT_CONFIGURED")
SessionMissingError == SdkErr("Auth session missing!", "")
NetworkError == SdkErr("Network request failed", "")
FetchFailed == SdkErr("Failed to fetch", "")

\* What a method of supabaseClient.auth ends in: { data, error: null },
\* { error }, or an exception.
SdkAnswer(type, user, error) == [type |-> type, user |-> user, error |-> error]
SdkOk(user) == SdkAnswer("ok", user, NoSdkErr)
SdkError(error) == SdkAnswer("error", NULL, error)
SdkThrows(error) == SdkAnswer("throws", NULL, error)

\* supabaseClient.auth.getUser(): the mock answers "not configured".
GetUserAnswers(client) ==
    IF client = "mock" THEN {SdkError(NotConfiguredError)}
    ELSE {SdkOk("u1"), SdkOk(NULL), SdkError(SessionMissingError),
          SdkError(NetworkError), SdkThrows(FetchFailed)}

\* supabaseClient.auth.signInWithPassword(): the mock has signIn only, so the
\* call throws a TypeError.
SignInAnswers(client) ==
    IF client = "mock"
    THEN {SdkThrows(SdkErr("supabaseClient.auth.signInWithPassword is not a function", ""))}
    ELSE {SdkOk("u1"), SdkOk("u2"),
          SdkError(SdkErr("Invalid login credentials", "invalid_credentials")),
          SdkThrows(FetchFailed)}

\* supabaseClient.auth.signUp()
SignUpAnswers(client) ==
    IF client = "mock" THEN {SdkError(NotConfiguredError)}
    ELSE {SdkOk("u1"), SdkOk(NULL),
          SdkError(SdkErr("User already registered", "user_already_exists")),
          SdkThrows(FetchFailed)}

\* supabaseClient.auth.signOut(): the mock answers { error: null }.
SignOutAnswers(client) ==
    IF client = "mock" THEN {SdkOk(NULL)}
    ELSE {SdkOk(NULL), SdkError(NetworkError), SdkThrows(FetchFailed)}

\* What the auth utilities return: error is a string (or null) and the code
\* lies beside it.
AuthResult(success, data, error, code) ==
    [success |-> success, data |-> data, error |-> error, code |-> code]

handleSupabaseError(error) ==
    IF error.message = "Auth session missing!" \/ error.code = "400"
    THEN AuthResult(FALSE, NULL, "No active authentication session. Please sign in.",
                    "AUTH_SESSION_MISSING")
    ELSE IF error.code = "PGRST116"
    THEN AuthResult(FALSE, NULL, "Authentication required. Please sign in.",
                    "AUTH_REQUIRED")
    ELSE IF error.code = "PGRST301"
    THEN AuthResult(FALSE, NULL,
                    "Permission denied. You may not have access to this resource.",
                    "PERMISSION_DENIED")
    ELSE AuthResult(FALSE, NULL,
                    IF error.message = "" THEN "An unexpected error occurred."
                    ELSE error.message,
                    IF error.code = "" THEN "UNKNOWN_ERROR" ELSE error.code)

\* auth.getUser / signIn / signUp / signOut: the answer with error: null
\* becomes a success, an error or an exception goes through
\* handleSupabaseError.
AuthCall(answer) ==
    IF answer.type = "ok" THEN AuthResult(TRUE, answer.user, NULL, "")
    ELSE handleSupabaseError(answer.error)

\* result.error?.code as the context reads it: result.error is null or a
\* string, and a string has no code.
ErrorCode(result) == UNDEFINED

\* result.error?.message?.includes('Auth session missing'): a string has no
\* message either.
ErrorMessageMentionsMissingSession(result) == FALSE

\* The last operation of the provider: what ran, on which answer or event, and
\* what login, signup or logout returned.
NoReturn == [success |-> FALSE, error |-> NULL]
Did(op, kind, user, error, returned) ==
    [op |-> op, kind |-> kind, user |-> user, error |-> error, returned |-> returned]
DidNothing == Did("none", "none", NULL, NoSdkErr, NoReturn)

UnmountedAuth ==
    [mounted |-> FALSE, client |-> "mock", user |-> NULL, loading |-> TRUE,
     error |-> NULL, initialised |-> FALSE, recovered |-> FALSE, did |-> DidNothing]

\* The page loads: supabase.js picks the real or the mock client and the
\* provider mounts with its useState initial values.
AuthProviderMounts ==
    /\ ~auth.mounted
    /\ \E client \in AuthClients :
          auth' = [UnmountedAuth EXCEPT !.mounted = TRUE, !.client = client]
    /\ UNCHANGED localStore

\* The state after initializeAuth got `result` from auth.getUser().
AfterInitialize(a, result) ==
    IF result.success /\ result.data # NULL
    THEN [a EXCEPT !.user = result.data, !.loading = FALSE]
    ELSE IF ErrorCode(result) = "SUPABASE_NOT_CONFIGURED"
    THEN [a EXCEPT !.loading = FALSE]
    ELSE IF ErrorCode(result) = "AUTH_SESSION_MISSING"
            \/ ErrorMessageMentionsMissingSession(result)
    THEN [a EXCEPT !.loading = FALSE]
    ELSE IF result.error # NULL
    THEN [a EXCEPT !.error = result.error, !.loading = FALSE]
    ELSE [a EXCEPT !.loading = FALSE]

\* initializeAuth, 100 ms after the mount.
InitializeAuth ==
    /\ auth.mounted /\ ~auth.initialised
    /\ \E answer \in GetUserAnswers(auth.client) :
          auth' = [AfterInitialize(auth, AuthCall(answer)) EXCEPT
                     !.initialised = TRUE,
                     !.did = Did("init", answer.type, answer.user, answer.error, NoReturn)]
    /\ UNCHANGED localStore

\* recoverSession, 500 ms after the mount.
RecoverSession ==
    /\ auth.mounted /\ ~auth.recovered
    /\ \E answer \in GetUserAnswers(auth.client) :
          LET result == AuthCall(answer)
              stored == localStore.parsed[1].form # "absent"
          IN auth' = [auth EXCEPT
                 !.user = IF stored /\ result.success /\ result.data # NULL
                          THEN result.data ELSE @,
                 !.recovered = TRUE,
                 !.did = IF stored
                         THEN Did("recover", answer.type, answer.user, answer.error, NoReturn)
                         ELSE Did("recover", "none", NULL, NoSdkErr, NoReturn)]
    /\ UNCHANGED localStore

\* The state after login or signup got `result`, and what the function
\* returns.
AfterSignIn(a, result) ==
    IF result.success
    THEN [a EXCEPT !.user = result.data, !.error = NULL, !.loading = FALSE]
    ELSE IF ErrorCode(result) = "SUPABASE_NOT_CONFIGURED"
    THEN [a EXCEPT !.error = NULL, !.loading = FALSE]
    ELSE [a EXCEPT !.error = result.error, !.loading = FALSE]

SignInReturn(result) == [success |-> result.success, error |-> result.error]

Login ==
    /\ auth.mounted
    /\ \E answer \in SignInAnswers(auth.client) :
          LET result == AuthCall(answer)
          IN auth' = [AfterSignIn(auth, result) EXCEPT
                        !.did = Did("login", answer.type, answer.user, answer.error,
                                    SignInReturn(result))]
    /\ UNCHANGED localStore

Signup ==
    /\ auth.mounted
    /\ \E answer \in SignUpAnswers(auth.client) :
          LET result == AuthCall(answer)
          IN auth' = [AfterSignIn(auth, result) EXCEPT
                        !.did = Did("signup", answer.type, answer.user, answer.error,
                                    SignInReturn(result))]
    /\ UNCHANGED localStore

Logout ==
    /\ auth.mounted
    /\ \E answer \in SignOutAnswers(auth.client) :
          LET result == AuthCall(answer)
          IN auth' = [auth EXCEPT
                        !.user = IF result.success THEN NULL ELSE @,
                        !.error = IF result.success THEN NULL ELSE result.error,
                        !.loading = FALSE,
                        !.did = Did("logout", answer.type, answer.user, answer.error,
                                    SignInReturn(result))]
    /\ UNCHANGED localStore

AuthEvents ==
    {"SIGNED_IN", "SIGNED_OUT", "TOKEN_REFRESHED", "USER_UPDATED", "INITIAL_SESSION"}

\* Changed the way a bug would: a token refresh clears the error as well.
ListenerClearingOnRefresh(a, event, sessionUser) ==
    IF event \in {"SIGNED_IN", "TOKEN_REFRESHED"} /\ sessionUser # NULL
    THEN [a EXCEPT !.user = sessionUser, !.error = NULL]
    ELSE IF event = "SIGNED_OUT"
    THEN [a EXCEPT !.user = NULL, !.error = NULL]
    ELSE a

\* The onAuthStateChange callback; sessionUser is session?.user.
Listener(a, event, sessionUser) ==
    IF event = "SIGNED_IN" /\ sessionUser # NULL
    THEN [a EXCEPT !.user = sessionUser, !.error = NULL]
    ELSE IF event = "SIGNED_OUT"
    THEN [a EXCEPT !.user = NULL, !.error = NULL]
    ELSE IF event = "TOKEN_REFRESHED" /\ sessionUser # NULL
    THEN [a EXCEPT !.user = sessionUser]
    ELSE a

\* The SDK reports an auth event; the mock client never calls the listener.
AuthStateChange ==
    /\ auth.mounted /\ auth.client = "real"
    /\ \E event \in AuthEvents, sessionUser \in AuthUsers \cup {NULL} :
          auth' = [Listener(auth, event, sessionUser) EXCEPT
                     !.did = Did("event", event, sessionUser, NoSdkErr, NoReturn)]
    /\ UNCHANGED localStore

(***************************************************************************)
(* HomePage (src/unnamed/part_000): the authentication popup and the       *)
(* product list.                                                           *)
(***************************************************************************)
\* Requests of one HomePage whose responses are still awaited.
MaxPending == 2

\* What the server has to offer: response.json() of /api/items.
ProductLists == {"none", "listA", "listB"}
\* The search box.
SearchQueries == {"", " ", "tv"}
\* searchQuery.trim() on the queries above.
TrimQuery(q) == IF q = " " THEN "" ELSE q

\* How a fetch of the product list ends.
FetchOutcomes ==
    [kind : {"ok"}, data : ProductLists \ {"none"}, message : {NULL}] \cup
    [kind : {"notOk"}, data : {"none"}, message : {"HTTP 500: oops"}] \cup
    [kind : {"threw"}, data : {"none"}, message : {"Failed to fetch"}]

\* No HomePage on screen.
UnmountedHome ==
    [mounted |-> FALSE, isAuthenticated |-> FALSE, products |-> "none",
     loading |-> FALSE, error |-> NULL, searchQuery |-> "",
     showAuthPopup |-> FALSE, hasMounted |-> FALSE, deps |-> <<>>,
     authChanged |-> FALSE, pending |-> <<>>]

\* The first render: the useState initial values.  deps holds the dependency
\* values the popup effect last ran with (none yet), authChanged whether
\* isAuthenticated changed since this mount, pending the requests in flight.
\* The product effect runs fetchProducts: setLoading(true), setError(null),
\* fetch.
MountedHome(isAuthenticated) ==
    [mounted |-> TRUE, isAuthenticated |-> isAuthenticated, products |-> "none",
     loading |-> TRUE, error |-> NULL, searchQuery |-> "",
     showAuthPopup |-> FALSE, hasMounted |-> FALSE, deps |-> <<>>,
     authChanged |-> FALSE, pending |-> <<"items">>]

\* The dependency array of the popup effect.
PopupDeps(h) == <<h.isAuthenticated, h.hasMounted>>

\* React runs an effect after the first render and after every render in
\* which a dependency differs from the last run's.
PopupEffectPending(h) == h.mounted /\ h.deps # PopupDeps(h)

\* The body of the popup effect.
PopupEffect(h) ==
    IF ~h.hasMounted
    THEN [h EXCEPT !.hasMounted = TRUE, !.deps = PopupDeps(h)]
    ELSE [h EXCEPT !.showAuthPopup = TRUE, !.deps = PopupDeps(h)]

HomeMounts ==
    /\ ~home.mounted
    /\ \E isAuthenticated \in BOOLEAN : home' = MountedHome(isAuthenticated)
    /\ net' = net \cup {"api"}

\* One run of the popup effect.  Pending effects run before anything else
\* happens to the component, so every other step waits for them.
PopupEffectRuns ==
    /\ PopupEffectPending(home)
    /\ home' = PopupEffect(home)
    /\ UNCHANGED net

\* useAuth().isAuthenticated changes: the visitor signed in or out.
HomeAuthChanges ==
    /\ home.mounted /\ ~PopupEffectPending(home)
    /\ home' = [home EXCEPT !.isAuthenticated = ~@, !.authChanged = TRUE]
    /\ UNCHANGED net

\* AuthPopup's onClose.
ClosePopup ==
    /\ home.mounted /\ ~PopupEffectPending(home)
    /\ home.showAuthPopup
    /\ home' = [home EXCEPT !.showAuthPopup = FALSE]
    /\ UNCHANGED net

\* fetchProducts up to its await, on window focus or a new location.key.
FetchProducts ==
    /\ home.mounted /\ ~PopupEffectPending(home)
    /\ Len(home.pending) < MaxPending
    /\ home' = [home EXCEPT !.loading = TRUE, !.error = NULL,
                            !.pending = Append(@, "items")]
    /\ net' = net \cup {"api"}

SearchChange ==
    /\ home.mounted /\ ~PopupEffectPending(home)
    /\ \E q \in SearchQueries \ {home.searchQuery} :
          home' = [home EXCEPT !.searchQuery = q]
    /\ UNCHANGED net

\* handleSearch up to its await; a blank query returns at once.
HandleSearch ==
    /\ home.mounted /\ ~PopupEffectPending(home)
    /\ Len(home.pending) < MaxPending
    /\ IF TrimQuery(home.searchQuery) = ""
       THEN UNCHANGED <<home, net>>
       ELSE /\ home' = [home EXCEPT !.loading = TRUE, !.error = NULL,
                                    !.pending = Append(@, "search")]
            /\ net' = net \cup {"api"}

\* The pending requests without the k-th.
WithoutPending(pending, k) ==
    SubSeq(pending, 1, k - 1) \o SubSeq(pending, k + 1, Len(pending))

\* The rest of fetchProducts or handleSearch once its response is in.
HomeResponseArrives ==
    /\ home.mounted /\ ~PopupEffectPending(home)
    /\ \E k \in 1..Len(home.pending), outcome \in FetchOutcomes :
          home' = [home EXCEPT
              !.products = IF outcome.kind = "ok" THEN outcome.data ELSE @,
              !.error = CASE outcome.kind = "ok" -> @
                          [] home.pending[k] = "items" -> outcome.message
                          [] outcome.kind = "notOk" -> "Search failed"
                          [] OTHER -> "Network error during search",
              !.loading = FALSE,
              !.pending = WithoutPending(@, k)]
    /\ UNCHANGED net

\* The visitor leaves the page; its state is gone.
HomeUnmounts ==
    /\ home.mounted /\ ~PopupEffectPending(home)
    /\ home' = UnmountedHome
    /\ UNCHANGED net



InitImage ==
    /\ cache = [p \in Paths |-> AbsentUrl]
    /\ sdk = "originA"
    /\ up = IdleUpload
    /\ um = IdleMulti
    /\ ev = NoEvent
    /\ vf = NoValidation
    /\ bu = IdleBatch
    /\ ru = <<>>
    /\ session = NoSession
    /\ localStore = EmptyStore
    /\ call = NoCall
    /\ net = {}
    /\ cp = MountedCreatePost(NULL)
    /\ chat = UnmountedChat(0)
    /\ auth = UnmountedAuth
    /\ home = UnmountedHome

batchVars == <<bu, ru>>
apiVars == <<session, localStore, call, net>>
vars == <<cache, sdk, up, um, ev, vf, bu, ru, session, localStore, call, net, cp, chat, auth, home>>
Init == InitImage

NextUpload ==
    \/ UploadImageCall /\ UNCHANGED <<vf, batchVars, apiVars, cp, chat, auth, home>>
    \/ UploadImageAttempt /\ UNCHANGED <<vf, batchVars, apiVars, cp, chat, auth, home>>
    \/ UploadImageDelayElapsed /\ UNCHANGED <<vf, batchVars, apiVars, cp, chat, auth, home>>

\* uploadMultipleImages and batchUploadWithRetry share no state, so a run
\* exercises one of the two from the initial state.
NextBookkeeping ==
    \/ bu.pc = "idle" /\ UploadMultipleCall /\ UNCHANGED <<vf, batchVars, apiVars, cp, chat, auth, home>>
    \/ UploadMultipleNext /\ UNCHANGED <<vf, batchVars, apiVars, cp, chat, auth, home>>
    \/ um.pc = "loop" /\ UploadImageAttempt /\ UNCHANGED <<vf, batchVars, apiVars, cp, chat, auth, home>>
    \/ um.pc = "loop" /\ UploadImageDelayElapsed /\ UNCHANGED <<vf, batchVars, apiVars, cp, chat, auth, home>>
    \/ um.pc = "idle" /\ BatchUploadCall /\ UNCHANGED <<imgVars, vf, apiVars, cp, chat, auth, home>>
    \/ RetryAttemptEnds /\ UNCHANGED <<imgVars, vf, apiVars, cp, chat, auth, home>>
    \/ RetryBackoffElapses /\ UNCHANGED <<imgVars, vf, apiVars, cp, chat, auth, home>>
    \/ BatchSettles /\ UNCHANGED <<imgVars, vf, apiVars, cp, chat, auth, home>>

NextBatch ==
    \/ BatchUploadCall /\ UNCHANGED <<imgVars, vf, apiVars, cp, chat, auth, home>>
    \/ RetryAttemptEnds /\ UNCHANGED <<imgVars, vf, apiVars, cp, chat, auth, home>>
    \/ RetryBackoffElapses /\ UNCHANGED <<imgVars, vf, apiVars, cp, chat, auth, home>>
    \/ BatchSettles /\ UNCHANGED <<imgVars, vf, apiVars, cp, chat, auth, home>>

SpecBatch == Init /\ [][NextBatch]_vars

NextApi ==
    \/ ApiCall /\ UNCHANGED <<imgVars, vf, batchVars, cp, chat, auth, home>>
    \/ ApiCallUnserialisable /\ UNCHANGED <<imgVars, vf, batchVars, cp, chat, auth, home>>
    \/ SessionChanges /\ UNCHANGED <<imgVars, vf, batchVars, cp, chat, auth, home>>
    \/ LocalStorageChanges /\ UNCHANGED <<imgVars, vf, batchVars, cp, chat, auth, home>>

SpecApi == Init /\ [][NextApi]_vars

\* What the CreatePost actions leave alone.
cpFrame == <<imgVars, vf, batchVars, session, localStore, call, chat, auth, home>>

NextCreatePost ==
    \/ HandleChange /\ UNCHANGED cpFrame
    \/ AuthUserChanges /\ UNCHANGED cpFrame
    \/ HandleImageUpload /\ UNCHANGED cpFrame
    \/ RemoveImage /\ UNCHANGED cpFrame
    \/ HandleSubmit /\ UNCHANGED cpFrame
    \/ PostResolves /\ UNCHANGED cpFrame
    \/ UploadsResolve /\ UNCHANGED cpFrame
    \/ CreatePostRemounts /\ UNCHANGED cpFrame

SpecCreatePost == Init /\ [][NextCreatePost]_vars

\* What the ChatPage actions leave alone, localStorage and net apart.
chatFrame == <<imgVars, vf, batchVars, session, call, cp, auth, home>>

NextChat ==
    \/ ChatMounts /\ UNCHANGED chatFrame
    \/ ChatUnmounts /\ UNCHANGED chatFrame
    \/ HandleInputChange /\ UNCHANGED chatFrame
    \/ HandleSendMessage /\ UNCHANGED chatFrame
    \/ HandleSessionSelect /\ UNCHANGED chatFrame
    \/ HandleCreateNewSession /\ UNCHANGED chatFrame
    \/ LocalStorageChanges /\ UNCHANGED <<imgVars, vf, batchVars, cp, chat, auth, home>>

SpecChat == Init /\ [][NextChat]_vars

\* What the AuthProvider actions leave alone, localStorage apart.
authFrame == <<imgVars, vf, batchVars, session, call, net, cp, chat, home>>

NextAuth ==
    \/ AuthProviderMounts /\ UNCHANGED authFrame
    \/ InitializeAuth /\ UNCHANGED authFrame
    \/ RecoverSession /\ UNCHANGED authFrame
    \/ Login /\ UNCHANGED authFrame
    \/ Signup /\ UNCHANGED authFrame
    \/ Logout /\ UNCHANGED authFrame
    \/ AuthStateChange /\ UNCHANGED authFrame
    \/ LocalStorageChanges /\ UNCHANGED <<imgVars, vf, batchVars, cp, chat, auth, home>>

SpecAuth == Init /\ [][NextAuth]_vars

homeFrame == <<imgVars, vf, batchVars, session, localStore, call, cp, chat, auth>>

NextHome ==
    \/ HomeMounts /\ UNCHANGED homeFrame
    \/ PopupEffectRuns /\ UNCHANGED homeFrame
    \/ HomeAuthChanges /\ UNCHANGED homeFrame
    \/ ClosePopup /\ UNCHANGED homeFrame
    \/ FetchProducts /\ UNCHANGED homeFrame
    \/ SearchChange /\ UNCHANGED homeFrame
    \/ HandleSearch /\ UNCHANGED homeFrame
    \/ HomeResponseArrives /\ UNCHANGED homeFrame
    \/ HomeUnmounts /\ UNCHANGED homeFrame

SpecHome == Init /\ [][NextHome]_vars

NextValidate == ValidateFile /\ UNCHANGED <<imgVars, batchVars, apiVars, cp, chat, auth, home>>

SpecValidate == Init /\ [][NextValidate]_vars

SpecBookkeeping == Init /\ [][NextBookkeeping]_vars

SpecUpload == Init /\ [][NextUpload]_vars

NextCache ==
    \/ GetPublicUrl /\ UNCHANGED <<vf, batchVars, apiVars, cp, chat, auth, home>>
    \/ DeleteImage /\ UNCHANGED <<vf, batchVars, apiVars, cp, chat, auth, home>>
    \/ ClearCache /\ UNCHANGED <<vf, batchVars, apiVars, cp, chat, auth, home>>
    \/ SdkChanges /\ UNCHANGED <<vf, batchVars, apiVars, cp, chat, auth, home>>
    \/ UploadImageCall /\ UNCHANGED <<vf, batchVars, apiVars, cp, chat, auth, home>>
    \/ UploadImageAttempt /\ UNCHANGED <<vf, batchVars, apiVars, cp, chat, auth, home>>
    \/ UploadImageDelayElapsed /\ UNCHANGED <<vf, batchVars, apiVars, cp, chat, auth, home>>

SpecCache == Init /\ [][NextCache]_vars

(***************************************************************************)
(* Properties of ImageService.uploadImage.                                 *)
(***************************************************************************)
FailedAttempts(outcomes) == {k \in 1..Len(outcomes) : outcomes[k] # "ok"}

\* C1: for a positive maxRetries N, uploadImage makes at most N storage
\* uploads, makes none after one succeeded, returns success=true with attempt
\* = the index of the successful upload, and after N failed uploads returns
\* success=false with attempts=N and the error of the last upload; it always
\* returns (it has no throwing exit).
C1_UploadImageRetryContract ==
    up.pc # "idle" =>
        /\ up.maxRetries >= 1
        /\ Len(up.outcomes) <= up.maxRetries
        /\ \A k \in 1..Len(up.outcomes) :
              up.outcomes[k] = "ok" =>
                  /\ k = Len(up.outcomes)
                  /\ up.pc = "done"
                  /\ up.result.success
                  /\ up.result.attempt = k
        /\ (up.pc = "done" /\ up.result.success) =>
              /\ Len(up.outcomes) >= 1
              /\ up.outcomes[Len(up.outcomes)] = "ok"
        /\ (up.pc = "done" /\ ~up.result.success) =>
              /\ Len(up.outcomes) = up.maxRetries
              /\ FailedAttempts(up.outcomes) = 1..up.maxRetries
              /\ up.result.attempts = up.maxRetries
              /\ up.result.error = up.outcomes[up.maxRetries]
        /\ up.pc \in {"attempt", "delay", "done"}

\* C1 witness: a call with the default three attempts whose uploads all failed
\* with different errors has returned.
C1_Witness_AllAttemptsFailed ==
    /\ up.pc = "done"
    /\ ~up.result.success
    /\ up.maxRetries = 3
    /\ up.outcomes = <<"StorageError", "StorageError", "NetworkError">>

\* C2 as stated: the wait after failed attempt k is retryDelay * 2^(k-1).
C2_Original_WaitsDouble ==
    \A k \in 1..Len(up.waits) : up.waits[k] = up.retryDelay * Pow2(k - 1)

\* C2 amended: uploadImage waits exactly retryDelay after every failed attempt
\* that is not the last one, the same wait every time (no exponential growth),
\* and does not wait after the last attempt.
C2_WaitsAreConstant ==
    /\ \A k \in 1..Len(up.waits) : up.waits[k] = up.retryDelay
    /\ up.pc \in {"delay", "done"} =>
          Len(up.waits) =
              Cardinality({k \in FailedAttempts(up.outcomes) : k < up.maxRetries})
    /\ up.pc = "attempt" => Len(up.waits) = Len(up.outcomes)

\* C2 witness: two waits have happened in one call.
C2_Witness_TwoWaits ==
    /\ Len(up.waits) = 2
    /\ up.pc = "done"

(***************************************************************************)
(* Properties of the public-URL cache.                                     *)
(***************************************************************************)
\* A getPublicUrl step on a path that has a cache entry returns that entry,
\* does not consult the SDK and leaves the cache as it is.
CacheHitStep ==
    (ev'.op = "getPublicUrl" /\ cache[ev'.path] # AbsentUrl) =>
        /\ ev'.url = cache[ev'.path]
        /\ ~ev'.consulted
        /\ cache' = cache

\* A cache entry changes only by a successful deleteImage of its path or by
\* clearCache.
CacheEntryStableStep ==
    \A p \in Paths :
        (cache[p] # AbsentUrl /\ cache'[p] # cache[p]) =>
            \/ ev'.op = "deleteImage" /\ ev'.path = p /\ ev'.success
            \/ ev'.op = "clearCache"

\* What getPublicUrl and a successful uploadImage return is what the cache
\* holds afterwards.
ReturnedUrlCached ==
    ev.op \in {"getPublicUrl", "uploadImage:ok"} => cache[ev.path] = ev.url

CacheHoldsUrlsOnly ==
    \A p \in Paths : cache[p] # AbsentUrl => (Truthy(cache[p]) /\ cache[p].path = p)

\* C7: once getPublicUrl(p) returned u, or uploadImage cached u for p, every
\* later getPublicUrl(p) returns u without consulting the storage SDK,
\* whatever the SDK would now answer, until deleteImage(p) succeeds or
\* clearCache is called; and the cache never maps a path to an empty or
\* missing URL.
C7_CachedUrlIsSticky ==
    /\ [](ReturnedUrlCached /\ CacheHoldsUrlsOnly)
    /\ [][CacheHitStep /\ CacheEntryStableStep]_vars

\* C7 witness: getPublicUrl answered from the cache with the URL of origin A
\* while the SDK would by now throw.
C7_Witness_HitWhileSdkDiffers ==
    /\ ev.op = "getPublicUrl"
    /\ ~ev.consulted
    /\ ev.url.origin = "originA"
    /\ sdk = "THROW"

(***************************************************************************)
(* Properties of ImageService.validateFile.                                *)
(***************************************************************************)
\* The size ceiling in force: options.maxSize when passed, else 2 MB.
SizeCeiling(options) == IF options.givesMaxSize THEN options.maxSize ELSE 2097152

AllowedList(options) ==
    IF options.givesAllowedTypes THEN options.allowedTypes
    ELSE {"image/jpeg", "image/png", "image/webp", "image/gif"}

RulesViolated(file, options) ==
    (IF file.size <= SizeCeiling(options) THEN {} ELSE {"size"})
    \cup (IF file.type \in AllowedList(options) THEN {} ELSE {"type"})

\* C8: validateFile reports valid=true exactly when the file's size is at most
\* the ceiling (2 MB unless options.maxSize overrides it) and its MIME type is
\* in the allowed list; otherwise errors holds one message per violated rule;
\* the file is returned unchanged either way.
C8_ValidateFileContract ==
    vf.called =>
        /\ vf.result.valid <=> RulesViolated(vf.file, vf.options) = {}
        /\ Len(vf.result.errors) = Cardinality(RulesViolated(vf.file, vf.options))
        /\ {vf.result.errors[k].rule : k \in 1..Len(vf.result.errors)}
              = RulesViolated(vf.file, vf.options)
        /\ vf.result.file = vf.file

\* C8 witness: a file of exactly 2 MB of an allowed type passed the default
\* rules.
C8_Witness_AtCeilingAccepted ==
    /\ vf.called
    /\ ~vf.options.givesMaxSize
    /\ vf.file.size = 2097152
    /\ vf.result.valid

(***************************************************************************)
(* Properties of the batch bookkeeping.                                    *)
(***************************************************************************)
RECURSIVE IndicesWith(_, _, _)
\* The indices i <= n with results[i].success = flag, ascending.
IndicesWith(results, flag, n) ==
    IF n = 0 THEN <<>>
    ELSE IF results[n].success = flag
         THEN Append(IndicesWith(results, flag, n - 1), n)
         ELSE IndicesWith(results, flag, n - 1)

\* total = number of files = successful + failed, success iff failed = 0, one
\* result per file.
SummaryAddsUp(ret, files) ==
    /\ ret.summary.total = Len(files)
    /\ ret.summary.total = ret.summary.successful + ret.summary.failed
    /\ ret.success <=> ret.summary.failed = 0
    /\ Len(ret.results) = Len(files)
    /\ ret.summary.successful = Len(IndicesWith(ret.results, TRUE, Len(ret.results)))
    /\ ret.summary.failed = Len(IndicesWith(ret.results, FALSE, Len(ret.results)))

MultiBookkeeping ==
    um.pc = "done" =>
        LET ret == MultiReturn(um)
            ok == IndicesWith(ret.results, TRUE, Len(ret.results))
            ko == IndicesWith(ret.results, FALSE, Len(ret.results))
        IN /\ SummaryAddsUp(ret, um.files)
           /\ ret.successfulUploads = [j \in 1..Len(ok) |-> ret.results[ok[j]].data]
           /\ \A j \in 1..Len(ok) :
                 ret.successfulUploads[j].original_filename = um.files[ok[j]].name
           /\ ret.failedUploads =
                 [j \in 1..Len(ko) |-> [file |-> um.files[ko[j]].name,
                                        error |-> ret.results[ko[j]].error,
                                        attempt |-> ret.results[ko[j]].attempts]]

BatchBookkeeping ==
    bu.pc = "done" =>
        LET ret == BatchReturn(bu)
            ok == IndicesWith(ret.results, TRUE, Len(ret.results))
            ko == IndicesWith(ret.results, FALSE, Len(ret.results))
        IN /\ SummaryAddsUp(ret, bu.files)
           /\ ret.successfulUploads = [j \in 1..Len(ok) |-> [file |-> bu.files[ok[j]]]]
           /\ ret.failedUploads =
                 [j \in 1..Len(ko) |-> [file |-> bu.files[ko[j]],
                                        error |-> ret.results[ko[j]].error]]

\* C6: uploadMultipleImages and batchUploadWithRetry return a summary with
\* total = number of input files = successful + failed, success exactly when
\* failed = 0, one result per input file in input order, and every file in
\* exactly one of successfulUploads and failedUploads (the list its own
\* result selects), the lists in input order.
C6_BatchSummariesAddUp == MultiBookkeeping /\ BatchBookkeeping

\* C6 witness: uploadMultipleImages returned for two files, the first failed
\* and the second uploaded.
C6_Witness_MixedOutcome ==
    /\ um.pc = "done"
    /\ Len(um.files) = 2
    /\ ~um.results[1].success
    /\ um.results[2].success
    /\ ~MultiReturn(um).success

\* The session has an access token.
HasToken(s) == s.present /\ s.access_token # ""

\* A step in which the main apiClient is called.
MainApiCallStep == call' # call /\ call'.client = "main"

\* C3: a call of the main apiClient carries "Authorization: Bearer <t>" exactly
\* when the session lookup succeeds and the session has the access token t;
\* with no session, an error from the lookup or a throwing lookup the request
\* is sent all the same (whenever its body can be serialised), without the
\* header.
C3_AuthorizationFollowsSession ==
    [][MainApiCallStep =>
        /\ call'.authorization =
              IF call'.lookup = "ok" /\ HasToken(session)
              THEN [scheme |-> "Bearer", token |-> session.access_token]
              ELSE NoHeader
        /\ call'.sent = (call'.body # "circular")]_vars

C3_Witness_SentWithoutHeader ==
    /\ call.done /\ call.client = "main" /\ call.lookup = "throws"
    /\ HasToken(session)
    /\ call.sent /\ call.authorization = NoHeader

\* C4 as the specification states it: the result's success equals the
\* response's ok flag, and data is null unless success.
C4_Original_SuccessIsResponseOk ==
    call.done =>
        /\ (call.sent /\ ~call.response.failed) =>
              call.result.success = ResponseOk(call.response.status)
        /\ ~call.result.success => call.result.data = JsonNull

\* C5 as the specification states it: a result with success = false carries a
\* non-empty error string.
C5_Original_FailureCarriesErrorString ==
    (call.done /\ ~call.result.success) =>
        call.result.error \notin {NULL, UNDEFINED, ""}

\* The form passes validation as the claim lists it.
FormPasses(form, user) ==
    /\ validateFormInput(sanitizeInput(form.title), "text", 0, 0).valid
    /\ validateFormInput(sanitizeInput(form.description), "text", 0, 0).valid
    /\ validateFormInput(sanitizeInput(form.price), "number",
                         PriceMinCents, PriceMaxCents).valid
    /\ form.category # ""
    /\ user # NULL

\* C9: handleSubmit sends POST /api/posts only when title and description pass
\* text validation, the price passes number validation within
\* [0.01, 999999.99], a category is selected and a user is logged in; when any
\* of these fails it sends no request, uploads no image and sets the error.
C9_SubmitOnlyValidForms ==
    cp.submit.made =>
        IF FormPasses(cp.submit.form, cp.submit.user)
        THEN cp.sent # <<>> /\ cp.sent[1] = "POST /api/posts"
        ELSE /\ cp.sent = <<>>
             /\ cp.pc = "idle" /\ ~cp.loading
             /\ cp.error \notin {NULL, UNDEFINED, ""}

C9_Witness_LoggedOutSubmitRefused ==
    /\ cp.submit.made
    /\ cp.submit.user = NULL
    /\ FormPasses(cp.submit.form, "u1")
    /\ cp.previews > 0
    /\ cp.sent = <<>>
    /\ cp.error = "You must be logged in to create a post"

\* A step of a ChatPage operation.
ChatStep == chat' # chat

\* C10: no ChatPage operation issues a network request or writes to
\* localStorage; sessions and messages live in the component's state only, and
\* a mount starts with an empty session list and an empty message list.
C10_ChatStateIsLocal ==
    /\ [][ChatStep => (net' = net /\ localStore' = localStore)]_vars
    /\ [][(~chat.mounted /\ chat'.mounted) =>
            (chat'.sessions = <<>> /\ chat'.messages = <<>>)]_vars
    /\ [](~chat.mounted => (chat.sessions = <<>> /\ chat.messages = <<>>))

C10_Witness_RemountedEmpty ==
    /\ chat.mounted
    /\ chat.dropped = MaxSessions
    /\ chat.sessions = <<>> /\ chat.messages = <<>>
    /\ net = {}
    /\ localStore # EmptyStore

\* The latest attempt of the call reported a validation error, as a string, as
\* an object or as an exception.
ReportedValidation(r) ==
    r.reported.kind # "undefined" /\ MentionsValidation(r.reported.message)

\* C11 as the specification states it: once an attempt of retryUpload reports
\* a validation error, in whatever form, the call makes no further attempt,
\* waits no backoff and resolves to success = false with that error.
C11_Original_ValidationStopsRetry ==
    \A k \in 1..Len(ru) :
        ReportedValidation(ru[k]) =>
            /\ ru[k].pc = "settled"
            /\ Len(ru[k].waits) = ru[k].calls - 1
            /\ ~ru[k].result.success
            /\ ru[k].result.error = ru[k].reported

\* C12 as the specification states it: at most maxRetries invocations, the
\* wait after failed attempt k is delay * 2^(k-1), a successful attempt ends
\* the call with success, and an exhausted call resolves to success = false
\* with the error of its last attempt (the fallback text when it had none).
C12_Original_BackoffAndLastError ==
    \A k \in 1..Len(ru) :
        /\ ru[k].calls <= bu.maxRetries
        /\ \A j \in 1..Len(ru[k].waits) :
              ru[k].waits[j] = RetryDefaultDelay * Pow2(j - 1)
        /\ (ru[k].pc = "settled" /\ ~ru[k].result.success /\ ru[k].calls > 0) =>
              ru[k].result.error =
                  IF ru[k].reported.kind = "undefined"
                  THEN Err("string", "Upload failed after multiple attempts")
                  ELSE ru[k].reported

\* The parts of C12 the code keeps: the bound on the invocations, the doubling
\* waits, and success exactly when the latest attempt succeeded.
RetryUploadAttemptsAndWaits ==
    \A k \in 1..Len(ru) :
        /\ ru[k].calls <= bu.maxRetries
        /\ \A j \in 1..Len(ru[k].waits) :
              ru[k].waits[j] = RetryDefaultDelay * Pow2(j - 1)
        /\ ru[k].pc = "settled" =>
              (ru[k].result.success <=> (ru[k].calls > 0 /\ ru[k].reported = NoErr
                                         /\ Len(ru[k].waits) = ru[k].calls - 1))

\* The files of the current batch whose upload function is running.
InFlight == {k \in 1..Len(ru) : ru[k].pc = "inflight"}

\* A step in which batchUploadWithRetry starts its next batch.
NextBatchStarts == bu.pc = "batch" /\ bu'.pc = "batch" /\ bu'.i > bu.i

DeleteImageStep == ev' # ev /\ ev'.op = "deleteImage"

\* C14: deleteImage(p) removes p from the cache exactly when the storage
\* removal succeeds; when the removal gives an error or throws it resolves to
\* success = false and the cache is what it was; the entries of the other
\* paths are untouched either way.
C14_DeleteTouchesOnlyItsPath ==
    [][DeleteImageStep =>
        /\ ev'.success => cache'[ev'.path] = AbsentUrl
        /\ ~ev'.success => cache' = cache
        /\ \A q \in Paths \ {ev'.path} : cache'[q] = cache[q]]_vars

C14_Witness_FailedDeleteKeepsEntry ==
    /\ ev.op = "deleteImage"
    /\ ~ev.success
    /\ Truthy(cache[ev.path])
    /\ \E q \in Paths \ {ev.path} : Truthy(cache[q])

\* initializeAuth has just run and the auth service reported that there is no
\* active session or that the backend is not configured.
InitializedSignedOut ==
    /\ auth.did.op = "init"
    /\ auth.did.kind \in {"error", "throws"}
    /\ auth.did.error \in {SessionMissingError, NotConfiguredError}

\* C15 as the specification states it: after such an initialisation the
\* context's error is null, user is null and loading is false.
C15_Original_SignedOutIsNoError ==
    InitializedSignedOut =>
        (auth.error = NULL /\ auth.user = NULL /\ ~auth.loading)

\* C16 as the specification states it: with the mock client login and signup
\* resolve to success = false with the "not configured" error and leave the
\* context's error null.
C16_Original_MockLoginLeavesErrorNull ==
    (auth.client = "mock" /\ auth.did.op \in {"login", "signup"}) =>
        /\ ~auth.did.returned.success
        /\ auth.did.returned.error = NotConfiguredMessage
        /\ auth.error = NULL

\* A step in which the auth listener handles an event.
AuthEventStep == auth'.did # auth.did /\ auth'.did.op = "event"

\* C20: the listener sets user to session.user on SIGNED_IN and on
\* TOKEN_REFRESHED when the session has a user, sets user to null on
\* SIGNED_OUT, clears error on SIGNED_IN (with a user) and on SIGNED_OUT only,
\* and leaves user and error as they were in every other case.
C20_ListenerFollowsEvents ==
    [][AuthEventStep =>
        LET event == auth'.did.kind
            sessionUser == auth'.did.user
        IN CASE event = "SIGNED_IN" /\ sessionUser # NULL ->
                  auth'.user = sessionUser /\ auth'.error = NULL
             [] event = "TOKEN_REFRESHED" /\ sessionUser # NULL ->
                  auth'.user = sessionUser /\ auth'.error = auth.error
             [] event = "SIGNED_OUT" ->
                  auth'.user = NULL /\ auth'.error = NULL
             [] OTHER ->
                  auth'.user = auth.user /\ auth'.error = auth.error]_vars

C20_Witness_RefreshKeepsError ==
    /\ auth.did.op = "event"
    /\ auth.did.kind = "TOKEN_REFRESHED"
    /\ auth.did.user = "u2"
    /\ auth.user = "u2"
    /\ auth.error = "Invalid login credentials"


\* ---------------------------------------------------------------------
\* C17: the number of image previews of CreatePost never exceeds
\* MaxImagePreviews (5), whatever files are selected and removed.  The file
\* input is disabled from five previews on, but handleImageUpload appends
\* every valid file of one selection without counting.
C17_Original_AtMostFivePreviews == cp.previews <= MaxImagePreviews


\* ---------------------------------------------------------------------
\* C19: handleSubmit.  No upload starts unless POST /api/posts returned
\* success; the page navigates to '/' exactly when the post was created, and
\* only after the uploads of the submission settled; a refused post has no
\* upload and no navigation; loading is false once handleSubmit has ended.
SubmitAtRest == cp.pc \in {"idle", "navigated"}

C19_Original_NavigatesIffCreated ==
    /\ cp.pc = "uploading" => cp.posted = "created"
    /\ (\E k \in 1..Len(cp.sent) : cp.sent[k] = "storage upload") => cp.posted = "created"
    /\ SubmitAtRest => (cp.pc = "navigated" <=> cp.posted = "created")
    /\ SubmitAtRest => ~cp.loading

\* The parts of C19 that do not depend on what the created post's response
\* carries: uploads need a created post, a navigation needs one too, a refused
\* post has neither, and loading is false at rest.
SubmitOrderExceptNavigation ==
    /\ cp.pc = "uploading" => cp.posted = "created"
    /\ (\E k \in 1..Len(cp.sent) : cp.sent[k] = "storage upload") => cp.posted = "created"
    /\ cp.pc = "navigated" => cp.posted = "created"
    /\ SubmitAtRest => ~cp.loading


\* ---------------------------------------------------------------------
\* C18: HomePage's authentication popup is hidden on mount and is shown
\* only after isAuthenticated changed since that mount; mounting alone,
\* with isAuthenticated constant, never makes showAuthPopup true.
C18_Original_PopupNeedsAuthChange ==
    home.mounted /\ home.showAuthPopup => home.authChanged

====
